---- MODULE Spec2Model ----
(***************************************************************************)
(* BemEntityName (src/index.js): construction from {block, elem, mod,      *)
(* modName, modVal}, the accessors, the lazily cached id and type, the     *)
(* representations, isEqual and the static isBemEntity.                    *)
(*                                                                         *)
(* JavaScript values.  A primitive is a record [t, s] (its typeof tag and  *)
(* its text); an object is a function from its own property names to       *)
(* values, so that hasOwnProperty is membership in DOMAIN and a missing    *)
(* property reads as undefined.                                            *)
(***************************************************************************)
EXTENDS Integers, Sequences, FiniteSets, TLC

VARIABLES pc, input, _obj, _id, _type, _isEntity, error, ret, arg,
          stringifyCalls, typeOfCalls, firstId, firstType

vars == <<pc, input, _obj, _id, _type, _isEntity, error, ret, arg,
          stringifyCalls, typeOfCalls, firstId, firstType>>

\* How many calls of stringify, and of typeOf, one instance may make before
\* the run stops reading id, resp. type, from it.
MaxCalls == 2

---------------------------------------------------------------------------
\* Values

Prim(t, s) == [t |-> t, s |-> s]
Undefined == Prim("undefined", "")
Null == Prim("object", "null")
True == Prim("boolean", "true")
False == Prim("boolean", "false")
Zero == Prim("number", "0")
Str(s) == Prim("string", s)
Bool(b) == IF b THEN True ELSE False
EmptyObject == <<>>

IsObject(v) == "t" \notin DOMAIN v
TypeofString(v) == ~IsObject(v) /\ v.t = "string"

\* ToBoolean: the falsy values are undefined, null, false, 0 and ''.
Truthy(v) == IsObject(v) \/ v \notin {Undefined, Null, False, Zero, Str("")}

\* a || b and a && b on values
Or(a, b) == IF Truthy(a) THEN a ELSE b
And(a, b) == IF Truthy(a) THEN b ELSE a

\* o.k: undefined when o has no own property k (a primitive string has none)
Prop(o, k) == IF IsObject(o) /\ k \in DOMAIN o THEN o[k] ELSE Undefined
HasOwnProperty(o, k) == IsObject(o) /\ k \in DOMAIN o

\* o with o.k = v assigned
Assign(o, k, v) == [x \in DOMAIN o \cup {k} |-> IF x = k THEN v ELSE o[x]]

---------------------------------------------------------------------------
\* The inputs of the constructor

\* No own property: used only to enumerate the inputs.
Absent == Prim("absent", "")

\* The object whose own properties are the fields of f that are not Absent
Pack(f) == [k \in {x \in DOMAIN f : f[x] # Absent} |-> f[k]]

BlockValues == {Absent, Str(""), Null, Zero, False, Str("b")}
ElemValues == {Absent, Str(""), Str("e")}
ModObjects ==
    { Pack([name |-> n, val |-> v]) :
        n \in {Absent, Str("m")},
        v \in {Absent, Str(""), Str("v")} }
ModValues == {Absent, Null, Str("m")} \cup ModObjects
ModNameValues == {Absent, Str("m"), Str("n")}
ModValValues == {Absent, Undefined, Str(""), Str("v"), Str("w")}

Inputs ==
    { Pack([block |-> b, elem |-> e, mod |-> m, modName |-> mn, modVal |-> mv]) :
        b \in BlockValues, e \in ElemValues, m \in ModValues,
        mn \in ModNameValues, mv \in ModValValues }

---------------------------------------------------------------------------
\* constructor(obj)

\* The message of the Error thrown at line 21 (its backquotes left out).
InvalidEntity == "This is not valid BEM entity: the field block is undefined."
NoError == ""

\* if (!obj.block)
BlockMissingOnlyAbsent(obj) == Prop(obj, "block") = Undefined
BlockMissing(obj) == ~Truthy(Prop(obj, "block"))

\* const modName = (typeof obj.mod === 'string' ? obj.mod : obj.mod && obj.mod.name) || obj.modName
ResolveModName(obj) ==
    Or(IF TypeofString(Prop(obj, "mod"))
       THEN Prop(obj, "mod")
       ELSE And(Prop(obj, "mod"), Prop(Prop(obj, "mod"), "name")),
       Prop(obj, "modName"))

\* obj.hasOwnProperty('modVal') || obj.mod && obj.mod.hasOwnProperty('val')
\*     ? obj.mod && obj.mod.val || obj.modVal : true
ResolveModValNoLegacy(obj) ==
    IF HasOwnProperty(Prop(obj, "mod"), "val")
    THEN Prop(Prop(obj, "mod"), "val")
    ELSE True
ResolveModVal(obj) ==
    IF \/ HasOwnProperty(obj, "modVal")
       \/ (Truthy(Prop(obj, "mod")) /\ HasOwnProperty(Prop(obj, "mod"), "val"))
    THEN Or(And(Prop(obj, "mod"), Prop(Prop(obj, "mod"), "val")), Prop(obj, "modVal"))
    ELSE True

\* this._obj as the constructor leaves it (lines 24-38)
NewObjModWithoutName(obj) ==
    LET o1 == "block" :> Prop(obj, "block")
        o2 == IF Truthy(Prop(obj, "elem")) THEN Assign(o1, "elem", Prop(obj, "elem")) ELSE o1
        o3 == IF HasOwnProperty(obj, "mod") \/ Truthy(ResolveModName(obj))
              THEN Assign(o2, "mod", [name |-> ResolveModName(obj), val |-> ResolveModVal(obj)])
              ELSE o2
    IN  o3
NewObj(obj) ==
    LET o1 == "block" :> Prop(obj, "block")
        o2 == IF Truthy(Prop(obj, "elem")) THEN Assign(o1, "elem", Prop(obj, "elem")) ELSE o1
        o3 == IF Truthy(ResolveModName(obj))
              THEN Assign(o2, "mod", [name |-> ResolveModName(obj), val |-> ResolveModVal(obj)])
              ELSE o2
    IN  o3

NoReturn == [op |-> "none", val |-> Undefined]
NoArg == [kind |-> "none", val |-> Undefined]

Init ==
    /\ pc = "start"
    /\ input \in Inputs
    /\ _obj = Undefined
    /\ _id = Undefined
    /\ _type = Undefined
    /\ _isEntity = Undefined
    /\ error = NoError
    /\ ret = NoReturn
    /\ arg = NoArg
    /\ stringifyCalls = 0
    /\ typeOfCalls = 0
    /\ firstId = Undefined
    /\ firstType = Undefined

Constructor ==
    /\ pc = "start"
    /\ IF BlockMissing(input)
       THEN /\ pc' = "failed"
            /\ error' = InvalidEntity
            /\ UNCHANGED <<_obj, _isEntity>>
       ELSE /\ pc' = "constructed"
            /\ _obj' = NewObj(input)
            /\ _isEntity' = True
            /\ UNCHANGED error
    /\ UNCHANGED <<input, _id, _type, ret, arg, stringifyCalls, typeOfCalls,
                   firstId, firstType>>

---------------------------------------------------------------------------
\* The collaborators: bem-naming's stringify and typeOf (origin naming:
\* block__elem_modName_modVal), and util.inspect on the plain _obj.

stringifyEntity(entity) ==
    IF ~Truthy(Prop(entity, "block"))
    THEN Undefined
    ELSE LET modVal == Prop(entity, "modVal")
             e == IF Truthy(Prop(entity, "elem")) THEN "__" \o Prop(entity, "elem").s ELSE ""
             n == IF /\ Truthy(Prop(entity, "modName"))
                     /\ (Truthy(modVal) \/ modVal = Zero \/ ~HasOwnProperty(entity, "modVal"))
                  THEN "_" \o Prop(entity, "modName").s
                  ELSE ""
             v == IF Truthy(Prop(entity, "modName")) /\ Truthy(modVal) /\ modVal # True
                  THEN "_" \o modVal.s
                  ELSE ""
         IN  Str(Prop(entity, "block").s \o e \o n \o v)

typeOfEntity(entity) ==
    LET modName == Prop(entity, "modName")
        isMod == /\ Truthy(modName)
                 /\ (Truthy(Prop(entity, "modVal")) \/ ~HasOwnProperty(entity, "modVal"))
    IN  IF ~Truthy(Prop(entity, "block")) THEN Undefined
        ELSE IF Truthy(Prop(entity, "elem")) /\ isMod THEN Str("elemMod")
        ELSE IF Truthy(Prop(entity, "elem")) /\ ~Truthy(modName) THEN Str("elem")
        ELSE IF isMod THEN Str("blockMod")
        ELSE IF ~Truthy(modName) THEN Str("block")
        ELSE Undefined

InspectPrim(v) == IF v.t = "string" THEN "'" \o v.s \o "'" ELSE IF v = Undefined THEN "undefined" ELSE v.s
InspectMod(m) == "{ name: " \o InspectPrim(m["name"]) \o ", val: " \o InspectPrim(m["val"]) \o " }"
utilInspect(o) ==
    "{ block: " \o InspectPrim(o["block"])
    \o (IF "elem" \in DOMAIN o THEN ", elem: " \o InspectPrim(o["elem"]) ELSE "")
    \o (IF "mod" \in DOMAIN o THEN ", mod: " \o InspectMod(o["mod"]) ELSE "")
    \o (IF "modName" \in DOMAIN o THEN ", modName: " \o InspectPrim(o["modName"]) ELSE "")
    \o (IF "modVal" \in DOMAIN o THEN ", modVal: " \o InspectPrim(o["modVal"]) ELSE "")
    \o " }"

---------------------------------------------------------------------------
\* The accessors, as values read off an instance whose _obj is o

get_block(o) == o["block"]
get_elem(o) == Prop(o, "elem")
get_mod(o) == Or(Prop(o, "mod"), EmptyObject)
get_modName(o) == Prop(get_mod(o), "name")
get_modVal(o) == Prop(get_mod(o), "val")

\* The tuple the id getter hands to stringify (lines 114-118)
IdEntity(o) ==
    LET e1 == "block" :> o["block"]
        e2 == IF Truthy(get_elem(o)) THEN Assign(e1, "elem", get_elem(o)) ELSE e1
        e3 == IF Truthy(get_modName(o)) THEN Assign(e2, "modName", get_modName(o)) ELSE e2
        e4 == IF Truthy(get_modVal(o)) THEN Assign(e3, "modVal", get_modVal(o)) ELSE e3
    IN  e4

\* The tuple the type getter hands to typeOf (lines 142-146)
TypeEntityAlwaysModVal(o) ==
    LET e1 == "block" :> o["block"]
        e2 == IF Truthy(get_elem(o)) THEN Assign(e1, "elem", get_elem(o)) ELSE e1
        e3 == IF Truthy(get_modName(o)) THEN Assign(e2, "modName", get_modName(o)) ELSE e2
        e4 == IF HasOwnProperty(o, "mod") THEN Assign(e3, "modVal", get_modVal(o)) ELSE e3
    IN  e4
TypeEntity(o) ==
    LET e1 == "block" :> o["block"]
        e2 == IF Truthy(get_elem(o)) THEN Assign(e1, "elem", get_elem(o)) ELSE e1
        e3 == IF Truthy(get_modName(o)) THEN Assign(e2, "modName", get_modName(o)) ELSE e2
        e4 == IF Truthy(get_modVal(o)) THEN Assign(e3, "modVal", get_modVal(o)) ELSE e3
    IN  e4

\* if (this._id) / if (this._type): the cache slot answers the read
IdHitNever(cache) == FALSE
IdHit(cache) == Truthy(cache)
TypeHit(cache) == Truthy(cache)

\* One read of id on an instance with _obj o, cache slot c.cache and c.calls
\* calls of stringify so far: the slot and the count after it, and its value.
IdRead(c, o) ==
    IF IdHit(c.cache)
    THEN [cache |-> c.cache, calls |-> c.calls, val |-> c.cache]
    ELSE [cache |-> stringifyEntity(IdEntity(o)), calls |-> c.calls + 1,
          val |-> stringifyEntity(IdEntity(o))]

TypeRead(c, o) ==
    IF TypeHit(c.cache)
    THEN [cache |-> c.cache, calls |-> c.calls, val |-> c.cache]
    ELSE [cache |-> typeOfEntity(TypeEntity(o)), calls |-> c.calls + 1,
          val |-> typeOfEntity(TypeEntity(o))]

ThisId == [cache |-> _id, calls |-> stringifyCalls]
ThisType == [cache |-> _type, calls |-> typeOfCalls]
Fresh == [cache |-> Undefined, calls |-> 0]

---------------------------------------------------------------------------
\* The operations on a constructed instance

Return(op, v) == ret' = [op |-> op, val |-> v]

IdUnchanged == UNCHANGED <<_id, stringifyCalls, firstId>>
TypeUnchanged == UNCHANGED <<_type, typeOfCalls, firstType>>
Frame == UNCHANGED <<pc, input, _obj, _isEntity, error>>

\* The reads of this.id of one operation: the first returned first, the
\* last left the slot and the count r.  firstId keeps what the first read of
\* the instance's life returned (an id is never undefined).
CommitId(r, first) ==
    /\ r.calls <= MaxCalls
    /\ _id' = r.cache
    /\ stringifyCalls' = r.calls
    /\ firstId' = IF firstId = Undefined THEN first ELSE firstId

CommitType(r) ==
    /\ r.calls <= MaxCalls
    /\ _type' = r.cache
    /\ typeOfCalls' = r.calls
    /\ firstType' = IF firstType = Undefined THEN r.val ELSE firstType

GetBlock ==
    /\ pc = "constructed"
    /\ Return("block", get_block(_obj))
    /\ arg' = NoArg
    /\ Frame /\ IdUnchanged /\ TypeUnchanged

GetElem ==
    /\ pc = "constructed"
    /\ Return("elem", get_elem(_obj))
    /\ arg' = NoArg
    /\ Frame /\ IdUnchanged /\ TypeUnchanged

GetMod ==
    /\ pc = "constructed"
    /\ Return("mod", get_mod(_obj))
    /\ arg' = NoArg
    /\ Frame /\ IdUnchanged /\ TypeUnchanged

GetModName ==
    /\ pc = "constructed"
    /\ Return("modName", get_modName(_obj))
    /\ arg' = NoArg
    /\ Frame /\ IdUnchanged /\ TypeUnchanged

GetModVal ==
    /\ pc = "constructed"
    /\ Return("modVal", get_modVal(_obj))
    /\ arg' = NoArg
    /\ Frame /\ IdUnchanged /\ TypeUnchanged

GetId ==
    /\ pc = "constructed"
    /\ LET r == IdRead(ThisId, _obj)
       IN  CommitId(r, r.val) /\ Return("id", r.val)
    /\ arg' = NoArg
    /\ Frame /\ TypeUnchanged

GetType ==
    /\ pc = "constructed"
    /\ LET r == TypeRead(ThisType, _obj)
       IN  CommitType(r) /\ Return("type", r.val)
    /\ arg' = NoArg
    /\ Frame /\ IdUnchanged

\* toString() { return this.id; }
toString ==
    /\ pc = "constructed"
    /\ LET r == IdRead(ThisId, _obj)
       IN  CommitId(r, r.val) /\ Return("toString", r.val)
    /\ arg' = NoArg
    /\ Frame /\ TypeUnchanged

\* valueOf() { return this._obj; }
ValueOf ==
    /\ pc = "constructed"
    /\ Return("valueOf", _obj)
    /\ arg' = NoArg
    /\ Frame /\ IdUnchanged /\ TypeUnchanged

\* inspect(depth, options)
Inspect ==
    /\ pc = "constructed"
    /\ Return("inspect", Str("BemEntityName " \o utilInspect(_obj)))
    /\ arg' = NoArg
    /\ Frame /\ IdUnchanged /\ TypeUnchanged

\* The inputs of the other entities isEqual is given: the block and the elem
\* of this one's input, and no modifier or the modifier m in each input
\* shape; and one with another elem.
OtherMods ==
    {<<Absent, Absent, Absent>>, <<Str("m"), Absent, Absent>>}
    \cup {<<Pack([name |-> Str("m"), val |-> v]), Absent, Absent>> :
            v \in {Absent, Str(""), Str("v")}}
    \cup {<<Absent, Str("m"), mv>> : mv \in {Absent, Str(""), Str("v")}}
OtherInputs ==
    { Pack([block |-> input["block"],
            elem |-> IF "elem" \in DOMAIN input THEN input["elem"] ELSE Absent,
            mod |-> m[1], modName |-> m[2], modVal |-> m[3]]) : m \in OtherMods }
    \cup {Pack([block |-> input["block"], elem |-> Str("f"), mod |-> Str("m")])}

\* What isEqual may be given: null, nothing, the instance itself, a plain
\* object (the look-alike {block, elem, mod} or one with an id property) or
\* another instance built from one of OtherInputs.
EqualArgs ==
    {[kind |-> "null", val |-> Null], [kind |-> "undefined", val |-> Undefined],
     [kind |-> "this", val |-> Undefined],
     [kind |-> "plain", val |-> _obj], [kind |-> "plain", val |-> "id" :> Str("b")]}
    \cup {[kind |-> "entity", val |-> i] : i \in OtherInputs}

\* entity.id for an argument that is not this instance
ArgId(a) ==
    IF a.kind = "entity" THEN IdRead(Fresh, NewObj(a.val)).val ELSE Prop(a.val, "id")

\* isEqual(entity) { return entity && (this.id === entity.id); }
IsEqual ==
    /\ pc = "constructed"
    /\ \E a \in EqualArgs :
        /\ arg' = a
        /\ IF a.kind \in {"null", "undefined"}
           THEN Return("isEqual", a.val) /\ IdUnchanged
           ELSE LET r1 == IdRead(ThisId, _obj)
                    r2 == IdRead(r1, _obj)
                IN  IF a.kind = "this"
                    THEN CommitId(r2, r1.val) /\ Return("isEqual", Bool(r1.val = r2.val))
                    ELSE CommitId(r1, r1.val) /\ Return("isEqual", Bool(r1.val = ArgId(a)))
    /\ Frame /\ TypeUnchanged

\* What isBemEntity may be given: the instance, the look-alike plain object
\* and a plain object that carries the marker.
EntityArgs ==
    {[kind |-> "this", val |-> Undefined], [kind |-> "plain", val |-> _obj],
     [kind |-> "plain", val |-> Assign(_obj, "_isEntity", True)]}

\* static isBemEntity(entity) { return entity._isEntity; }
IsBemEntity ==
    /\ pc = "constructed"
    /\ \E a \in EntityArgs :
        /\ arg' = a
        /\ Return("isBemEntity", IF a.kind = "this" THEN _isEntity ELSE Prop(a.val, "_isEntity"))
    /\ Frame /\ IdUnchanged /\ TypeUnchanged

Next ==
    \/ Constructor
    \/ GetBlock \/ GetElem \/ GetMod \/ GetModName \/ GetModVal
    \/ GetId \/ GetType
    \/ toString \/ ValueOf \/ Inspect
    \/ IsEqual \/ IsBemEntity

Spec == Init /\ [][Next]_vars

---------------------------------------------------------------------------
\* What an input asks for, read off the input alone

InputBlock == Prop(input, "block")
InputMod == Prop(input, "mod")
NonEmptyString(v) == TypeofString(v) /\ v # Str("")

\* The shape in which an input gives its modifier: the shorthand string mod,
\* the object mod, the deprecated modName/modVal, none at all, or a mix.
Shape(i) ==
    IF HasOwnProperty(i, "mod") /\ ~HasOwnProperty(i, "modName") /\ ~HasOwnProperty(i, "modVal")
    THEN IF TypeofString(i["mod"]) THEN "shorthand"
         ELSE IF IsObject(i["mod"]) THEN "object" ELSE "other"
    ELSE IF ~HasOwnProperty(i, "mod")
         THEN IF HasOwnProperty(i, "modName") \/ HasOwnProperty(i, "modVal")
              THEN "legacy" ELSE "none"
         ELSE "mixed"

\* The modifier name and value an input of a single shape denotes: a value is
\* the declared one, and true when none is declared.
EffectiveName(i) ==
    LET n == IF Shape(i) = "shorthand" THEN i["mod"]
             ELSE IF Shape(i) = "object" THEN Prop(i["mod"], "name")
             ELSE IF Shape(i) = "legacy" THEN Prop(i, "modName")
             ELSE Undefined
    IN  IF NonEmptyString(n) THEN n ELSE Undefined
EffectiveVal(i) ==
    IF EffectiveName(i) = Undefined THEN Undefined
    ELSE IF Shape(i) = "object" /\ HasOwnProperty(i["mod"], "val") THEN i["mod"]["val"]
    ELSE IF Shape(i) = "legacy" /\ HasOwnProperty(i, "modVal") THEN i["modVal"]
    ELSE True
Effective(i) == <<Prop(i, "block"), Prop(i, "elem"), EffectiveName(i), EffectiveVal(i)>>

\* A modifier name resolves from some source of the input
NameResolves(i) ==
    \/ NonEmptyString(Prop(i, "mod"))
    \/ (IsObject(Prop(i, "mod")) /\ NonEmptyString(Prop(Prop(i, "mod"), "name")))
    \/ NonEmptyString(Prop(i, "modName"))

\* {block, elem?, modName?, modVal?} of an instance, falsy parts left out
NormalizedTuple ==
    [k \in {x \in {"block", "elem", "modName", "modVal"} :
              x = "block" \/ Truthy(Prop([block |-> get_block(_obj), elem |-> get_elem(_obj),
                                          modName |-> get_modName(_obj),
                                          modVal |-> get_modVal(_obj)], x))}
       |-> [block |-> get_block(_obj), elem |-> get_elem(_obj),
            modName |-> get_modName(_obj), modVal |-> get_modVal(_obj)][k]]

---------------------------------------------------------------------------
\* The claims

\* C1: construction from an input whose block is falsy (absent, '', null, 0,
\* false) fails with the InvalidEntity error and leaves no instance, whatever
\* elem, mod, modName and modVal are; construction from an input whose block
\* is a non-empty string never fails.
C1_BlockValidation ==
    pc # "start" =>
        /\ InputBlock \in {Undefined, Str(""), Null, Zero, False} =>
              /\ pc = "failed"
              /\ error = InvalidEntity
              /\ _obj = Undefined /\ _isEntity = Undefined
        /\ NonEmptyString(InputBlock) =>
              /\ pc = "constructed"
              /\ error = NoError
              /\ IsObject(_obj) /\ _isEntity = True

C1_Witness ==
    /\ pc = "failed"
    /\ InputBlock = Zero
    /\ HasOwnProperty(input, "elem") /\ HasOwnProperty(InputMod, "name")
    /\ HasOwnProperty(input, "modVal")

\* C2: for an input whose mod is an object with a non-empty name and an own
\* val, the entity's mod.val is that val verbatim (also when it is '') and
\* its mod.name is that name, whatever modName and modVal the input carries.
C2_ExplicitModVerbatim ==
    (/\ pc = "constructed"
     /\ IsObject(InputMod)
     /\ NonEmptyString(Prop(InputMod, "name"))
     /\ HasOwnProperty(InputMod, "val"))
    => /\ get_mod(_obj) = [name |-> InputMod["name"], val |-> InputMod["val"]]
       /\ ret.op = "modVal" => ret.val = InputMod["val"]

\* C3: an entity that has a modifier never has the absent value as its
\* mod.val.
C3_ModValNeverUndefined ==
    (pc = "constructed" /\ HasOwnProperty(_obj, "mod"))
    => /\ _obj["mod"]["val"] # Undefined
       /\ ret.op = "modVal" => ret.val # Undefined

\* C4: the elem accessor returns the input's elem when one was supplied and
\* the empty string when the input has no elem.
C4_ElemOrEmptyString ==
    ret.op = "elem" =>
        ret.val = IF HasOwnProperty(input, "elem") THEN input["elem"] ELSE Str("")

\* C5: isEqual(other) returns the boolean true when other is non-null and
\* other.id is this entity's id, and the boolean false in every other case.
C5_IsEqualBoolean ==
    ret.op = "isEqual" =>
        ret.val = Bool(/\ arg.kind \notin {"null", "undefined"}
                       /\ (arg.kind = "this" \/ ArgId(arg) = IdRead(ThisId, _obj).val))

\* C6: two entities built from inputs of different shapes (shorthand string
\* mod, object mod, deprecated modName/modVal) that denote the same block,
\* elem, modifier name and modifier value have equal ids, and isEqual between
\* them is true in both directions.
C6_ShapesAgree ==
    (/\ ret.op = "isEqual"
     /\ arg.kind = "entity"
     /\ {Shape(input), Shape(arg.val)} \subseteq {"shorthand", "object", "legacy"}
     /\ Shape(input) # Shape(arg.val)
     /\ Effective(input) = Effective(arg.val))
    => /\ _id = ArgId(arg)
       /\ ret.val = True
       /\ Bool(ArgId(arg) = _id) = True

C6_Witness ==
    /\ ret.op = "isEqual"
    /\ arg.kind = "entity"
    /\ Shape(input) = "legacy" /\ Shape(arg.val) = "object"
    /\ Effective(input) = Effective(arg.val)
    /\ EffectiveVal(input) = Str("v")
    /\ HasOwnProperty(_obj, "elem")
    /\ ret.val = True

\* C7: on one instance every read of id returns what the first read
\* returned, and likewise for type; that value is stringify, resp. typeOf, of
\* the normalized tuple; and each of the two is called at most once.
C7_CachedOnce ==
    /\ stringifyCalls <= 1
    /\ typeOfCalls <= 1
    /\ ret.op \in {"id", "toString"} => ret.val = firstId
    /\ ret.op = "type" => ret.val = firstType
    /\ _id \in {Undefined, firstId}
    /\ _type \in {Undefined, firstType}
    /\ firstId # Undefined => firstId = stringifyEntity(NormalizedTuple)
    /\ firstType # Undefined => firstType = typeOfEntity(NormalizedTuple)

C7_Witness ==
    /\ ret.op = "isEqual" /\ arg.kind = "this" /\ ret.val = True
    /\ stringifyCalls = 1 /\ typeOfCalls = 1
    /\ firstId = Str("b__e_m_v") /\ firstType = Str("elemMod")

\* C8: what valueOf returns has only keys among block, elem and mod: block
\* always, elem only if the input supplied one, and mod exactly when a
\* modifier name resolved from the shorthand string, mod.name or modName.
C8_ValueOfKeys ==
    ret.op = "valueOf" =>
        /\ DOMAIN ret.val \subseteq {"block", "elem", "mod"}
        /\ "block" \in DOMAIN ret.val
        /\ "elem" \in DOMAIN ret.val => HasOwnProperty(input, "elem")
        /\ "mod" \in DOMAIN ret.val <=> NameResolves(input)

C8_Witness ==
    /\ ret.op = "valueOf"
    /\ DOMAIN ret.val = {"block"}
    /\ HasOwnProperty(InputMod, "val") /\ HasOwnProperty(input, "modVal")

\* C9: isBemEntity(candidate) returns true if and only if the candidate
\* carries the marker: true for what the constructor built, false for a
\* look-alike plain object with block/elem/mod and no marker.
C9_IsBemEntityBoolean ==
    ret.op = "isBemEntity" =>
        ret.val = Bool(arg.kind = "this" \/ HasOwnProperty(arg.val, "_isEntity"))

\* C10: type is block with neither elem nor modifier, elem with an elem and
\* no modifier, blockMod with a modifier and no elem, elemMod with both; it
\* is never absent.
C10_TypeByParts ==
    ret.op = "type" =>
        ret.val = IF HasOwnProperty(_obj, "mod")
                  THEN IF HasOwnProperty(_obj, "elem") THEN Str("elemMod") ELSE Str("blockMod")
                  ELSE IF HasOwnProperty(_obj, "elem") THEN Str("elem") ELSE Str("block")

C10_Witness ==
    /\ ret.op = "type"
    /\ ret.val = Str("elemMod")
    /\ input = [block |-> Str("b"), elem |-> Str("e"), mod |-> Str("m")]

====
